---- MODULE Spec2Model ----
(***************************************************************************)
(* Load order resolution of Nexus-Flow.                                    *)
(*                                                                         *)
(* apply_custom_mod_order_rules (src/log_analysis/nexus_log_remover.py)    *)
(* takes the list of archive names of modlist.txt and an ordered mapping   *)
(* target -> dependents, and returns the reordered list and the count of   *)
(* overridden mods.                                                        *)
(*                                                                         *)
(* Archive names are modelled by the integers 1..NumNames: Python compares *)
(* strings by code point, a total order, which the integer order stands    *)
(* for.  A dict is the sequence of its items in insertion order, with      *)
(* distinct keys.  The function's locals are the fields of a store record; *)
(* each statement of the function is an operator from store to store that  *)
(* changes exactly the objects the statement writes.                       *)
(***************************************************************************)
EXTENDS Integers, Sequences, FiniteSets, TLC

\* Bounds of the model.
NumNames == 4
MaxRules == 2
MaxDeps  == 2

Names == 1..NumNames

VARIABLES
    archive_list,        \* the caller's list object passed as archive_list
    custom_order_rules,  \* the caller's rules mapping passed as custom_order_rules
    pc,                  \* position of the caller
    first,               \* the store at the return of the first call
    second_list,         \* the list passed to the second call
    second,              \* the store at the return of the second call
    each_log_file,       \* the lines of the log file a parser reads
    parser,              \* the store of the running parser (parse_log_entries, parse_redscript_log)
    log_file_paths,      \* the files of the list passed to process_logs
    logs,                \* the store of the running process_logs
    logs_again           \* the store at the end of process_logs on the files in another order

\* the state of the load order sorter and of the log analyzer
sorterVars == <<archive_list, custom_order_rules, first, second_list, second>>
analyzerVars == <<each_log_file, parser, log_file_paths, logs, logs_again>>

vars == <<archive_list, custom_order_rules, pc, first, second_list, second,
          each_log_file, parser, log_file_paths, logs, logs_again>>

----------------------------------------------------------------------------
\* Python built-ins used by the function.

\* set(archive_list)
SetOf(list) == {list[i] : i \in DOMAIN list}

Min(S) == CHOOSE m \in S : \A x \in S : m <= x

Max(S) == CHOOSE m \in S : \A x \in S : m >= x

\* variant of sorted: sorted(archive_set, reverse=True)
RECURSIVE sortedDescending(_)
sortedDescending(S) ==
    IF S = {} THEN <<>> ELSE <<Max(S)>> \o sortedDescending(S \ {Max(S)})

\* sorted(archive_set): a new list, ascending
RECURSIVE sorted(_)
sorted(S) == IF S = {} THEN <<>> ELSE <<Min(S)>> \o sorted(S \ {Min(S)})

\* reversed(each_mod_dependency): an iterator, the list is left as it is
reversed(list) == [i \in 1..Len(list) |-> list[Len(list) + 1 - i]]

\* list.index(x) as a position counted from 1; the code calls it only when x in list
ListIndex(list, x) == Min({i \in DOMAIN list : list[i] = x})

\* list.insert(index, x), index a position counted from 1 (Python's index + 1)
ListInsert(list, index, x) ==
    SubSeq(list, 1, index - 1) \o <<x>> \o SubSeq(list, index, Len(list))

----------------------------------------------------------------------------
\* The inputs.

\* a list of unique archive names, in any order
IsUnique(list) == \A i, j \in DOMAIN list : list[i] = list[j] => i = j

ArchiveLists ==
    UNION {{l \in [1..k -> Names] : IsUnique(l)} : k \in 0..NumNames}

DependencyLists == UNION {[1..k -> Names] : k \in 0..MaxDeps}

\* one item of the rules dict
Rules == [mod : Names, deps : DependencyLists]

\* a dict: its keys are distinct
RuleMappings ==
    UNION {{m \in [1..k -> Rules] : \A i, j \in 1..k : m[i].mod = m[j].mod => i = j}
           : k \in 0..MaxRules}

----------------------------------------------------------------------------
\* apply_custom_mod_order_rules of nexus_log_remover.py, statement by statement.
\* The store holds the two argument objects and the function's locals.
\* filtered_order_rules holds, in order, the positions in custom_order_rules of
\* the items it keeps: the dict comprehension copies the keys and shares the
\* dependency list objects with the caller's mapping.

\* variant of EnterCall: archive_set = set(archive_list[1:]), the first line skipped
EnterCallSkipsFirst(list, rules) ==
    [archive_list |-> list,
     custom_order_rules |-> rules,
     ordered_mods |-> <<>>,
     overridden_count |-> 0,
     archive_set |-> {list[i] : i \in DOMAIN list \ {1}},
     filtered_order_rules |-> <<>>,
     remaining_archives |-> <<>>,
     raised |-> FALSE]

\* ordered_mods, overridden_count = [], 0 ; archive_set = set(archive_list)
EnterCall(list, rules) ==
    [archive_list |-> list,
     custom_order_rules |-> rules,
     ordered_mods |-> <<>>,
     overridden_count |-> 0,
     archive_set |-> SetOf(list),
     filtered_order_rules |-> <<>>,
     remaining_archives |-> <<>>,
     raised |-> FALSE]

\* variant of RuleSurvives: the test of the dependents is left out
RuleSurvivesTargetOnly(rule, archive_set) == rule.mod \in archive_set

\* the condition of the dict comprehension
RuleSurvives(rule, archive_set) ==
    /\ rule.mod \in archive_set
    /\ \A i \in DOMAIN rule.deps : rule.deps[i] \in archive_set

\* filtered_order_rules = {each_mod: each_dependency for ... if ...}
RECURSIVE KeptPositions(_, _, _)
KeptPositions(rules, archive_set, k) ==
    IF k > Len(rules) THEN <<>>
    ELSE (IF RuleSurvives(rules[k], archive_set) THEN <<k>> ELSE <<>>)
         \o KeptPositions(rules, archive_set, k + 1)

\* variant of FilterRules: every rule is kept, as in load_order_sorter.py
FilterRulesKeepsAll(st) ==
    [st EXCEPT !.filtered_order_rules = [k \in 1..Len(st.custom_order_rules) |-> k]]

FilterRules(st) ==
    [st EXCEPT !.filtered_order_rules =
        KeptPositions(st.custom_order_rules, st.archive_set, 1)]

\* the k-th item of filtered_order_rules.items()
FilteredRule(st, k) == st.custom_order_rules[st.filtered_order_rules[k]]

\* archive_set.remove(x): raises KeyError when x is not in the set
SetRemove(st, x) ==
    IF x \in st.archive_set
    THEN [st EXCEPT !.archive_set = @ \ {x}]
    ELSE [st EXCEPT !.raised = TRUE]

\* variant of RemoveDependency: archive_set.discard(x) and the count, without the test
RemoveDependencyUnguarded(st, each_mod_required) ==
    [st EXCEPT !.archive_set = @ \ {each_mod_required},
               !.ordered_mods = Append(@, each_mod_required),
               !.overridden_count = @ + 1]

\* the body of the inner loop of the removal pass
RemoveDependency(st, each_mod_required) ==
    IF each_mod_required \in st.archive_set
    THEN [SetRemove(st, each_mod_required)
            EXCEPT !.ordered_mods = Append(@, each_mod_required),
                   !.overridden_count = @ + 1]
    ELSE st

\* for each_mod_required in each_mod_dependency
RECURSIVE RemoveDependencies(_, _, _)
RemoveDependencies(st, deps, j) ==
    IF j > Len(deps) \/ st.raised THEN st
    ELSE RemoveDependencies(RemoveDependency(st, deps[j]), deps, j + 1)

\* for each_mod, each_mod_dependency in filtered_order_rules.items()
RECURSIVE RemovalPass(_, _)
RemovalPass(st, k) ==
    IF k > Len(st.filtered_order_rules) \/ st.raised THEN st
    ELSE RemovalPass(RemoveDependencies(st, FilteredRule(st, k).deps, 1), k + 1)

\* variant of SortRemaining: remaining_archives = [a for a in archive_list if a in archive_set]
SortRemainingKeepsListOrder(st) ==
    IF st.raised THEN st
    ELSE [st EXCEPT !.remaining_archives =
            SelectSeq(st.archive_list, LAMBDA name : name \in st.archive_set)]

\* variant of SortRemaining: archive_list.sort() and the insertions made into archive_list
SortRemainingInPlace(st) ==
    IF st.raised THEN st
    ELSE [st EXCEPT !.archive_list = sorted(SetOf(@)),
                    !.remaining_archives = sorted(st.archive_set)]

\* remaining_archives = sorted(archive_set)
SortRemaining(st) ==
    IF st.raised THEN st
    ELSE [st EXCEPT !.remaining_archives = sorted(st.archive_set)]

\* index = remaining_archives.index(each_mod) if each_mod in remaining_archives
\*         else len(remaining_archives)
InsertionIndex(remaining_archives, each_mod) ==
    IF each_mod \in SetOf(remaining_archives)
    THEN ListIndex(remaining_archives, each_mod)
    ELSE Len(remaining_archives) + 1

\* for each_mod_required in reversed(each_mod_dependency):
\*     remaining_archives.insert(index, each_mod_required)
RECURSIVE InsertAll(_, _, _, _)
InsertAll(list, index, rev, j) ==
    IF j > Len(rev) THEN list
    ELSE InsertAll(ListInsert(list, index, rev[j]), index, rev, j + 1)

\* variant of InsertRule: the dependents are iterated in declared order, not reversed
InsertRuleForward(st, k) ==
    [st EXCEPT !.remaining_archives =
        InsertAll(@, InsertionIndex(@, FilteredRule(st, k).mod),
                  FilteredRule(st, k).deps, 1)]

\* the body of the outer loop of the insertion pass
InsertRule(st, k) ==
    [st EXCEPT !.remaining_archives =
        InsertAll(@, InsertionIndex(@, FilteredRule(st, k).mod),
                  reversed(FilteredRule(st, k).deps), 1)]

\* the insertion pass, from the k-th kept rule up to the n-th
RECURSIVE InsertionPass(_, _, _)
InsertionPass(st, k, n) ==
    IF k > n \/ st.raised THEN st
    ELSE InsertionPass(InsertRule(st, k), k + 1, n)

\* the whole function: the store at its return statement
apply_custom_mod_order_rules(list, rules) ==
    LET sorted_store == SortRemaining(RemovalPass(FilterRules(EnterCall(list, rules)), 1))
    IN  InsertionPass(sorted_store, 1, Len(sorted_store.filtered_order_rules))

\* the returned tuple
final_order(st) == st.remaining_archives
overridden_count(st) == st.overridden_count

----------------------------------------------------------------------------
\* apply_custom_mod_order_rules of load_order_sorter.py, statement by statement.
\* priority_archive_file is the list of its items in insertion order: one item
\* [mod, mods] per rule, in the order of custom_order_rules.

\* priority_archive_file = {} ; overridden_mod_count = 0 ;
\* set_of_archives = set(list_of_archive_files)
SorterEnterCall(list, rules) ==
    [list_of_archive_files |-> list,
     custom_order_rules |-> rules,
     priority_archive_file |-> <<>>,
     overridden_mod_count |-> 0,
     set_of_archives |-> SetOf(list),
     sorted_archive_list |-> <<>>,
     raised |-> FALSE]

\* the body of the inner loop of the collecting pass, for the k-th rule
CollectPriority(st, k, each_archive_to_sort) ==
    IF each_archive_to_sort \in st.set_of_archives
    THEN [st EXCEPT !.priority_archive_file[k].mods = Append(@, each_archive_to_sort),
                    !.set_of_archives = @ \ {each_archive_to_sort},
                    !.overridden_mod_count = @ + 1]
    ELSE st

\* for each_archive_to_sort in custom_sorting_rule
RECURSIVE CollectPriorities(_, _, _)
CollectPriorities(st, k, j) ==
    IF j > Len(st.custom_order_rules[k].deps) THEN st
    ELSE CollectPriorities(CollectPriority(st, k, st.custom_order_rules[k].deps[j]), k, j + 1)

\* for each_archive_file, custom_sorting_rule in custom_order_rules.items():
\*     priority_archive_file[each_archive_file] = [] ; the inner loop
RECURSIVE CollectingPass(_, _)
CollectingPass(st, k) ==
    IF k > Len(st.custom_order_rules) THEN st
    ELSE LET opened == [st EXCEPT !.priority_archive_file =
                            Append(@, [mod |-> st.custom_order_rules[k].mod, mods |-> <<>>])]
         IN  CollectingPass(CollectPriorities(opened, k, 1), k + 1)

\* sorted_archive_list = sort_archive_files(list(set_of_archives))
SorterSortRemaining(st) ==
    [st EXCEPT !.sorted_archive_list = sorted(st.set_of_archives)]

\* variant of SorterInsertRule: a target that is not in the list gets its mods
\* appended in reversed order
SorterInsertRuleExtendsReversed(st, k) ==
    LET each_archive_file == st.priority_archive_file[k].mod
        mods == st.priority_archive_file[k].mods
    IN  IF each_archive_file \in SetOf(st.sorted_archive_list)
        THEN [st EXCEPT !.sorted_archive_list =
                InsertAll(@, ListIndex(@, each_archive_file), reversed(mods), 1)]
        ELSE [st EXCEPT !.sorted_archive_list = @ \o reversed(mods)]

\* the body of the loop of the reinsertion pass: insert before the target, or
\* sorted_archive_list.extend(mods)
SorterInsertRule(st, k) ==
    LET each_archive_file == st.priority_archive_file[k].mod
        mods == st.priority_archive_file[k].mods
    IN  IF each_archive_file \in SetOf(st.sorted_archive_list)
        THEN [st EXCEPT !.sorted_archive_list =
                InsertAll(@, ListIndex(@, each_archive_file), reversed(mods), 1)]
        ELSE [st EXCEPT !.sorted_archive_list = @ \o mods]

\* for each_archive_file, mods in priority_archive_file.items()
RECURSIVE ReinsertionPass(_, _)
ReinsertionPass(st, k) ==
    IF k > Len(st.priority_archive_file) THEN st
    ELSE ReinsertionPass(SorterInsertRule(st, k), k + 1)

\* the whole function of load_order_sorter.py: the store at its return statement
sorter_apply_custom_mod_order_rules(list, rules) ==
    ReinsertionPass(SorterSortRemaining(CollectingPass(SorterEnterCall(list, rules), 1)), 1)

\* the returned tuple of load_order_sorter.py
sorted_archive_files(st) == st.sorted_archive_list
overridden_mod_count(st) == st.overridden_mod_count

----------------------------------------------------------------------------
\* what the variables of the program that is not running hold
Idle == [idle |-> TRUE]

\* The caller: manage_mod_load_order reads the list and calls the function;
\* a later run calls it again on the list it wrote, or on the same names read
\* in another order.

NoCall == [raised |-> FALSE, none |-> TRUE]

Init ==
    /\ archive_list \in ArchiveLists
    /\ custom_order_rules \in RuleMappings
    /\ pc = "start"
    /\ first = NoCall
    /\ second_list = <<>>
    /\ second = NoCall
    /\ each_log_file = <<>>
    /\ parser = Idle
    /\ log_file_paths = <<>>
    /\ logs = Idle
    /\ logs_again = Idle

\* final_order, overridden_count = apply_custom_mod_order_rules(initial_load_order, custom_order_rules)
Resolve ==
    /\ pc = "start"
    /\ LET st == apply_custom_mod_order_rules(archive_list, custom_order_rules)
       IN  /\ first' = st
           /\ archive_list' = st.archive_list
           /\ custom_order_rules' = st.custom_order_rules
    /\ pc' = "resolved"
    /\ UNCHANGED <<second_list, second>>
    /\ UNCHANGED analyzerVars

\* the function is called again on the order it returned
ResolveAgain ==
    /\ pc = "resolved"
    /\ second_list' = final_order(first)
    /\ second' = apply_custom_mod_order_rules(final_order(first), custom_order_rules)
    /\ pc' = "again"
    /\ UNCHANGED <<archive_list, custom_order_rules, first>>
    /\ UNCHANGED analyzerVars

\* the list with the names at positions i and i + 1 exchanged
Exchanged(list, i) ==
    [j \in 1..Len(list) |-> IF j = i THEN list[i + 1] ELSE IF j = i + 1 THEN list[i] ELSE list[j]]

\* the function is called on the same names in another order: two neighbouring
\* lines of modlist.txt are exchanged (every order is reached from every other
\* by such exchanges, and Init starts from every order)
ResolveReordered ==
    /\ pc = "resolved"
    /\ \E i \in 1..(Len(archive_list) - 1) :
          /\ second_list' = Exchanged(archive_list, i)
          /\ second' = apply_custom_mod_order_rules(Exchanged(archive_list, i), custom_order_rules)
    /\ pc' = "reordered"
    /\ UNCHANGED <<archive_list, custom_order_rules, first>>
    /\ UNCHANGED analyzerVars

Next == Resolve \/ ResolveAgain \/ ResolveReordered

Spec == Init /\ [][Next]_vars

\* manage_mod_load_order of load_order_sorter.py calls its own function on the
\* same modlist.txt and the same rules
SortLoadOrder ==
    /\ pc = "resolved"
    /\ second_list' = archive_list
    /\ second' = sorter_apply_custom_mod_order_rules(archive_list, custom_order_rules)
    /\ pc' = "sorted"
    /\ UNCHANGED <<archive_list, custom_order_rules, first>>
    /\ UNCHANGED analyzerVars

NextBoth == Resolve \/ SortLoadOrder

\* the two scripts run on the same input
SpecBoth == Init /\ [][NextBoth]_vars

----------------------------------------------------------------------------
\* What the properties are stated in: the inputs of the first call, read off
\* the caller's objects, not off the function's locals.

\* the artifact set
ArtifactNames == SetOf(archive_list)

\* number of occurrences of a name in a list
Occurrences(list, name) == Cardinality({i \in DOMAIN list : list[i] = name})

\* a rule is valid: its target and all of its dependents are artifacts
IsValidRule(rule) ==
    /\ rule.mod \in ArtifactNames
    /\ \A i \in DOMAIN rule.deps : rule.deps[i] \in ArtifactNames

\* positions of the valid and of the dropped rules in the mapping
ValidPositions == {i \in DOMAIN custom_order_rules : IsValidRule(custom_order_rules[i])}
DroppedPositions == DOMAIN custom_order_rules \ ValidPositions

\* the mapping with the dropped rules deleted
ValidRulesOnly == SelectSeq(custom_order_rules, IsValidRule)

\* the distinct dependent names of the valid rules
ValidDependents == UNION {SetOf(custom_order_rules[i].deps) : i \in ValidPositions}

\* the list restricted to the names of S, order kept
Restricted(list, S) == SelectSeq(list, LAMBDA name : name \in S)

IsAscending(list) == \A i, j \in DOMAIN list : i < j => list[i] < list[j]

\* the ascending ordinal sort of the names of S
IsSortOf(list, S) ==
    /\ IsAscending(list)
    /\ SetOf(list) = S
    /\ Len(list) = Cardinality(S)

Returned == pc # "start"

----------------------------------------------------------------------------
\* C1: the returned final order is a permutation of the input names: every
\* artifact name appears exactly once and no other name appears, also when a
\* dependent is listed by several surviving rules or twice in one rule.
C1_FinalOrderIsPermutation ==
    Returned =>
        /\ SetOf(final_order(first)) = ArtifactNames
        /\ \A name \in ArtifactNames : Occurrences(final_order(first), name) = 1

\* C2: a rule whose target or one of whose dependents is absent is dropped
\* entirely: it is not kept by the filter, no error is raised, none of its
\* dependents (that no valid rule lists) leaves the working set, is counted or
\* is relocated, and the valid rules are applied as if the dropped ones were
\* not in the mapping.
C2_InvalidRuleDropped ==
    Returned =>
        /\ ~first.raised
        /\ SetOf(first.filtered_order_rules) = ValidPositions
        /\ \A i \in DroppedPositions :
             \A name \in (SetOf(custom_order_rules[i].deps) \cap ArtifactNames) \ ValidDependents :
                /\ name \in first.archive_set
                /\ name \notin SetOf(first.ordered_mods)
                /\ Occurrences(final_order(first), name) = 1
        /\ overridden_count(first) = Cardinality(ValidDependents)
        /\ IsSortOf(Restricted(final_order(first), ArtifactNames \ ValidDependents),
                    ArtifactNames \ ValidDependents)
        /\ LET alone == apply_custom_mod_order_rules(archive_list, ValidRulesOnly)
           IN  /\ final_order(first) = final_order(alone)
               /\ overridden_count(first) = overridden_count(alone)

\* a dropped rule with a present dependent, next to a valid rule that relocates one
C2_Witness ==
    /\ Returned
    /\ \E i \in DroppedPositions :
          (SetOf(custom_order_rules[i].deps) \cap ArtifactNames) \ ValidDependents # {}
    /\ overridden_count(first) > 0

\* C3: when no rule survives the filter the result is the ascending sort of
\* all artifact names and overriddenCount 0 (empty list: empty order and 0).
C3_NoSurvivorGivesSortedOrder ==
    (Returned /\ ValidPositions = {}) =>
        /\ IsSortOf(final_order(first), ArtifactNames)
        /\ overridden_count(first) = 0
        /\ (archive_list = <<>> => final_order(first) = <<>>)

\* rules exist, all of them dropped, on a list that is not in ascending order
C3_Witness ==
    /\ Returned
    /\ custom_order_rules # <<>>
    /\ ValidPositions = {}
    /\ Len(archive_list) >= 2
    /\ ~IsAscending(archive_list)

\* C4: a dependent listed by several surviving rules is processed and counted
\* once: overriddenCount is the number of distinct dependent names over the
\* surviving rules and the number of names removed from the working set.
C4_CountIsDistinctDependents ==
    Returned =>
        /\ overridden_count(first) = Cardinality(ValidDependents)
        /\ overridden_count(first) = Cardinality(ArtifactNames) - Cardinality(first.archive_set)
        /\ first.archive_set = ArtifactNames \ ValidDependents
        /\ Len(first.ordered_mods) = overridden_count(first)
        /\ IsUnique(first.ordered_mods)

\* two surviving rules list the same dependent
C4_Witness ==
    /\ Returned
    /\ \E i, j \in ValidPositions :
          /\ i # j
          /\ SetOf(custom_order_rules[i].deps) \cap SetOf(custom_order_rules[j].deps) # {}

\* the target of the rule at position i of the mapping is still in the sorted
\* base order (the working set after the removal pass)
TargetInBase(i) == custom_order_rules[i].mod \in first.archive_set

\* list holds block in consecutive positions that end right before position p
BlockBefore(list, block, p) ==
    /\ p - Len(block) >= 1
    /\ \A j \in DOMAIN block : list[p - Len(block) + j - 1] = block[j]

\* C5: for every surviving rule whose target remains in the sorted base order,
\* the final order holds the rule's dependents in consecutive positions right
\* before the target, in declared order, whatever other rules are applied.
\* Stated for the calls whose final order repeats no name, so that a violation
\* does not rest on a name entered twice (C1).
C5_DependentsRightBeforeTarget ==
    (Returned /\ IsUnique(final_order(first))) =>
        \A i \in ValidPositions :
            TargetInBase(i) =>
                \E p \in DOMAIN final_order(first) :
                    /\ final_order(first)[p] = custom_order_rules[i].mod
                    /\ BlockBefore(final_order(first), custom_order_rules[i].deps, p)

\* the list after the insertion pass has applied the first k kept rules
AfterRules(k) == InsertionPass(SortRemaining(first), 1, k).remaining_archives

KeptRule(k) == custom_order_rules[first.filtered_order_rules[k]]

\* no two rules list each other's target, and no rule lists its own
NoMutualRules ==
    \A i, j \in DOMAIN custom_order_rules :
        custom_order_rules[i].mod \in SetOf(custom_order_rules[j].deps)
            => custom_order_rules[j].mod \notin SetOf(custom_order_rules[i].deps)

\* C6 as claimed: a surviving rule whose target is not in the sorted base order
\* gets its dependents appended at the end of the list, in declared order,
\* whatever the iteration order of the rules.  Stated for the mappings without
\* a rule cycle.
C6_AbsentTargetAppendsAtEnd ==
    (Returned /\ NoMutualRules) =>
        \A k \in DOMAIN first.filtered_order_rules :
            KeptRule(k).mod \notin first.archive_set =>
                AfterRules(k) = AfterRules(k - 1) \o KeptRule(k).deps

\* C6 as amended: the target is looked up in the list as it stands when the rule
\* is applied.  The dependents are appended at the end, in declared order, when
\* no rule iterated earlier has put the target back; otherwise they are entered,
\* in declared order, right before the first occurrence of the target.
C6_AbsentTargetLookedUpInCurrentList ==
    Returned =>
        \A k \in DOMAIN first.filtered_order_rules :
            KeptRule(k).mod \notin first.archive_set =>
                LET before == AfterRules(k - 1)
                    hits == {p \in DOMAIN before : before[p] = KeptRule(k).mod}
                IN  IF hits = {}
                    THEN AfterRules(k) = before \o KeptRule(k).deps
                    ELSE \E p \in hits :
                            /\ \A q \in hits : p <= q
                            /\ AfterRules(k) = SubSeq(before, 1, p - 1)
                                               \o KeptRule(k).deps
                                               \o SubSeq(before, p, Len(before))

\* a rule with two dependents whose target, removed as a dependent of an
\* earlier rule, is back in the list when the rule is applied
C6_Witness ==
    /\ Returned
    /\ \E k \in DOMAIN first.filtered_order_rules :
          /\ KeptRule(k).mod \notin first.archive_set
          /\ KeptRule(k).mod \in SetOf(AfterRules(k - 1))
          /\ Len(KeptRule(k).deps) = 2
          /\ KeptRule(k).deps[1] # KeptRule(k).deps[2]

\* C7: calling the resolver again on its own final order with the same rules
\* returns exactly the same final order.
C7_RerunKeepsOrder ==
    pc = "again" => final_order(second) = final_order(first)

\* the first call relocated a dependent and changed the order of the list
C7_Witness ==
    /\ pc = "again"
    /\ overridden_count(first) > 0
    /\ final_order(first) # archive_list
    /\ second_list = final_order(first)

\* every valid rule has its dependents right before its target in the list
DependentsPlaced(list) ==
    \A i \in ValidPositions :
        \E p \in DOMAIN list :
            /\ list[p] = custom_order_rules[i].mod
            /\ BlockBefore(list, custom_order_rules[i].deps, p)

\* C8 as claimed: the second call on the own final order returns overriddenCount
\* 0, because the dependents are already placed before their targets.
C8_RerunCountsZero ==
    (pc = "again" /\ IsUnique(second_list) /\ DependentsPlaced(second_list)) =>
        overridden_count(second) = 0

\* C8 as amended: the second call on the own final order returns the same
\* overriddenCount as the first call, the number of distinct dependents of the
\* valid rules; it is 0 only when no valid rule has a dependent.
C8_RerunCountsAgain ==
    pc = "again" =>
        /\ overridden_count(second) = overridden_count(first)
        /\ overridden_count(second) = Cardinality(ValidDependents)

\* the dependents already sit right before their targets and are counted again
C8_Witness ==
    /\ pc = "again"
    /\ overridden_count(second) > 0
    /\ IsUnique(second_list)
    /\ DependentsPlaced(second_list)

\* C9: two calls on the same set of names in different list orders, with the
\* same rules, return the same final order and the same overriddenCount.
C9_ListOrderIrrelevant ==
    pc = "reordered" =>
        /\ SetOf(second_list) = ArtifactNames
        /\ final_order(second) = final_order(first)
        /\ overridden_count(second) = overridden_count(first)

\* the two lists differ, a rule applied, and names were left to be sorted
C9_Witness ==
    /\ pc = "reordered"
    /\ second_list # archive_list
    /\ overridden_count(first) > 0
    /\ Cardinality(first.archive_set) >= 2

\* C10: the call leaves the caller's list and rules mapping as they were: no
\* step changes archive_list or custom_order_rules, and the argument objects
\* of the second call hold at its return what was passed.
C10_InputsNotMutated ==
    /\ [][archive_list' = archive_list /\ custom_order_rules' = custom_order_rules]_vars
    /\ [](pc \in {"again", "reordered"} =>
            /\ second.archive_list = second_list
            /\ second.custom_order_rules = custom_order_rules)

\* the call returned another order than the list it was given
C10_Witness ==
    /\ Returned
    /\ overridden_count(first) > 0
    /\ ~IsAscending(archive_list)
    /\ final_order(first) # archive_list
    /\ first.archive_list = archive_list

----------------------------------------------------------------------------
\* nexus_log_analyzer.py: the log analyzer.
\*
\* A Python str is modelled by the sequence of its characters, a line of a file
\* by the str that iterating the file yields (its newline included).

\* "".join(log_lines)
RECURSIVE Join(_)
Join(lines) == IF lines = <<>> THEN <<>> ELSE Head(lines) \o Join(Tail(lines))

\* the characters str.strip() removes and \s matches
Whitespace == {" ", "\t", "\n", "\r"}

\* str.strip(): a new str without the leading and the trailing whitespace
Strip(text) ==
    LET kept == {i \in DOMAIN text : text[i] \notin Whitespace}
    IN  IF kept = {} THEN <<>> ELSE SubSeq(text, Min(kept), Max(kept))

\* str.replace("|", r"\|"): every pipe gets a backslash in front
RECURSIVE EscapePipes(_)
EscapePipes(text) ==
    IF text = <<>> THEN <<>>
    ELSE (IF Head(text) = "|" THEN <<"\\", "|">> ELSE <<Head(text)>>)
         \o EscapePipes(Tail(text))

\* str.startswith(prefix)
StartsWith(text, prefix) ==
    /\ Len(text) >= Len(prefix)
    /\ \A i \in DOMAIN prefix : text[i] = prefix[i]

\* `sub in text`: sub occurs at some offset of text, case-sensitive
Contains(text, sub) ==
    \E p \in 0..(Len(text) - Len(sub)) : \A i \in DOMAIN sub : text[p + i] = sub[i]

UpperCase == <<"A", "B", "C", "D", "E", "F", "G", "H", "I", "J", "K", "L", "M",
               "N", "O", "P", "Q", "R", "S", "T", "U", "V", "W", "X", "Y", "Z">>
LowerCase == <<"a", "b", "c", "d", "e", "f", "g", "h", "i", "j", "k", "l", "m",
               "n", "o", "p", "q", "r", "s", "t", "u", "v", "w", "x", "y", "z">>
Digits == {"0", "1", "2", "3", "4", "5", "6", "7", "8", "9"}

\* \w of the re module
IsWordChar(c) == c \in SetOf(UpperCase) \cup SetOf(LowerCase) \cup Digits \cup {"_"}

\* the case folding of re.IGNORECASE
Lower(c) ==
    IF c \in SetOf(UpperCase)
    THEN LowerCase[CHOOSE i \in DOMAIN UpperCase : UpperCase[i] = c]
    ELSE c

\* \b at offset p of text: a word character on exactly one side
WordBoundary(text, p) ==
    (p >= 1 /\ IsWordChar(text[p])) # (p < Len(text) /\ IsWordChar(text[p + 1]))

\* EXCEPTION_KEYWORDS
EXCEPTION_KEYWORDS ==
    {
     <<"W", "A", "R", "N">>,
     <<"w", "a", "r", "n", "i", "n", "g">>,
     <<"e", "r", "r", "o", "r">>,
     <<"e", "r", "r", "o", "r", "s">>,
     <<"f", "a", "i", "l", "e", "d">>,
     <<"s", "k", "i", "p", "p", "e", "d">>,
     <<"n", "i", "l", " ", "v", "a", "l", "u", "e">>,
     <<"n", "u", "l", "l", " ", "v", "a", "l", "u", "e">>,
     <<"s", "t", "a", "c", "k", " ", "t", "r", "a", "c", "e">>,
     <<"n", "o", "n", "-", "e", "x", "i", "s", "t", "e", "n", "t">>,
     <<"d", "o", "e", "s", "n", "'", "t", " ", "e", "x", "i", "s", "t">>,
     <<"d", "o", "e", "s", " ", "n", "o", "t", " ", "e", "x", "i", "s", "t">>,
     <<"s", "t", "a", "c", "k", " ", "t", "r", "a", "c", "e", "b", "a", "c", "k", ":">>,
     <<"a", "t", "t", "e", "m", "p", "t", " ", "t", "o", " ", "i", "n", "d", "e", "x">>,
     <<"a", "t", "t", "e", "m", "p", "t", "e", "d", " ", "t", "o", " ", "i", "n", "d", "e", "x">>,
     <<"c", "a", "n", "n", "o", "t", " ", "b", "e", " ", "d", "e", "t", "e", "r", "m", "i", "n", "e", "d">>}

\* WARNING_KEYWORDS
WARNING_KEYWORDS == {<<"w", "a", "r", "n">>, <<"w", "a", "r", "n", "i", "n", "g">>}

\* the keyword matches at offset p of text, whatever the case of the letters
KeywordAt(text, p, keyword) ==
    /\ p + Len(keyword) <= Len(text)
    /\ \A i \in DOMAIN keyword : Lower(text[p + i]) = Lower(keyword[i])

\* EXCEPTION_PATTERN.search(text): \b(?:keyword|...)\b with re.IGNORECASE
EXCEPTION_PATTERN_search(text) ==
    \E p \in 0..Len(text) :
        /\ WordBoundary(text, p)
        /\ \E keyword \in EXCEPTION_KEYWORDS :
              /\ KeywordAt(text, p, keyword)
              /\ WordBoundary(text, p + Len(keyword))

\* TIMESTAMP_PATTERN: ^\[\d{4}-\d{2}-\d{2}\s\d{2}:\d{2}:\d{2}, "d" a digit, "s" whitespace
TIMESTAMP_PATTERN ==
    <<"[", "d", "d", "d", "d", "-", "d", "d", "-", "d", "d", "s",
      "d", "d", ":", "d", "d", ":", "d", "d">>

\* TIMESTAMP_PATTERN.match(each_line): the pattern matches at the start of the line
TIMESTAMP_PATTERN_match(each_line) ==
    /\ Len(each_line) >= Len(TIMESTAMP_PATTERN)
    /\ \A i \in DOMAIN TIMESTAMP_PATTERN :
          CASE TIMESTAMP_PATTERN[i] = "d" -> each_line[i] \in Digits
            [] TIMESTAMP_PATTERN[i] = "s" -> each_line[i] \in Whitespace
            [] OTHER -> each_line[i] = TIMESTAMP_PATTERN[i]

----------------------------------------------------------------------------
\* parse_log_entries and evaluate_log_entry: the standard log format.

\* a path: os.path.basename(path) is its name
LogPath(dir, name) == [dir |-> dir, name |-> name]

\* evaluate_log_entry with two separate `if`s instead of if/elif
evaluate_log_entry_two_ifs(log_lines, errors, warnings, log_path) ==
    LET log_content == EscapePipes(Strip(Join(log_lines)))
        record == <<log_path, log_content>>
    IN  [errors |-> IF EXCEPTION_PATTERN_search(log_content)
                    THEN Append(errors, record) ELSE errors,
         warnings |-> IF \E keyword \in WARNING_KEYWORDS : Contains(log_content, keyword)
                      THEN Append(warnings, record) ELSE warnings]

\* evaluate_log_entry with the two tests in the other order
evaluate_log_entry_errors_first(log_lines, errors, warnings, log_path) ==
    LET log_content == EscapePipes(Strip(Join(log_lines)))
    IN  IF EXCEPTION_PATTERN_search(log_content)
        THEN [errors |-> Append(errors, <<log_path, log_content>>),
              warnings |-> warnings]
        ELSE IF \E keyword \in WARNING_KEYWORDS : Contains(log_content, keyword)
        THEN [errors |-> errors,
              warnings |-> Append(warnings, <<log_path, log_content>>)]
        ELSE [errors |-> errors, warnings |-> warnings]

\* evaluate_log_entry: what the two lists hold after the call
evaluate_log_entry(log_lines, errors, warnings, log_path) ==
    LET log_content == EscapePipes(Strip(Join(log_lines)))
    IN  IF \E keyword \in WARNING_KEYWORDS : Contains(log_content, keyword)
        THEN [errors |-> errors,
              warnings |-> Append(warnings, <<log_path, log_content>>)]
        ELSE IF EXCEPTION_PATTERN_search(log_content)
        THEN [errors |-> Append(errors, <<log_path, log_content>>),
              warnings |-> warnings]
        ELSE [errors |-> errors, warnings |-> warnings]

\* errors, warnings, log_lines = [], [], [] and the open file, no line read yet.
\* entries is the list of the log_lines that evaluate_log_entry was called with.
EnterParseLogEntries(log_path) ==
    [log_path |-> log_path,
     errors |-> <<>>,
     warnings |-> <<>>,
     log_lines |-> <<>>,
     line_no |-> 0,
     entries |-> <<>>]

\* evaluate_log_entry(log_lines, errors, warnings, log_path)
EvaluateBuffer(st) ==
    LET after == evaluate_log_entry(st.log_lines, st.errors, st.warnings, st.log_path)
    IN  [st EXCEPT !.errors = after.errors,
                   !.warnings = after.warnings,
                   !.entries = Append(@, st.log_lines)]

\* the loop body without the timestamp test: every line joins the open buffer
ReadStandardLineNoBoundary(st, each_line) ==
    [st EXCEPT !.log_lines = Append(@, each_line),
               !.line_no = @ + 1]

\* the body of the loop over the lines of the file
ReadStandardLine(st, each_line) ==
    LET flushed == IF TIMESTAMP_PATTERN_match(each_line) /\ st.log_lines # <<>>
                   THEN [EvaluateBuffer(st) EXCEPT !.log_lines = <<>>]
                   ELSE st
    IN  [flushed EXCEPT !.log_lines = Append(@, each_line),
                        !.line_no = @ + 1]

\* after the loop: if log_lines: evaluate_log_entry(...)
EndStandardLog(st) == IF st.log_lines # <<>> THEN EvaluateBuffer(st) ELSE st

\* the loop over the lines from line k on
RECURSIVE ReadStandardLines(_, _, _)
ReadStandardLines(st, lines, k) ==
    IF k > Len(lines) THEN st
    ELSE ReadStandardLines(ReadStandardLine(st, lines[k]), lines, k + 1)

\* the whole function on a file that opens: the store at its return statement
parse_log_entries(log_path, lines) ==
    EndStandardLog(ReadStandardLines(EnterParseLogEntries(log_path), lines, 1))

\* The lines the model reads from a standard log.
StartedLine ==
    <<"[", "2", "0", "2", "4", "-", "0", "1", "-", "0", "1", " ", "0", "0",
      ":", "0", "0", ":", "0", "0", "]", " ", "s", "t", "a", "r", "t", "e",
      "d", "\n">>
LowMemoryLine ==
    <<"[", "2", "0", "2", "4", "-", "0", "1", "-", "0", "1", " ", "0", "0",
      ":", "0", "0", ":", "0", "1", "]", " ", "w", "a", "r", "n", "i", "n",
      "g", ":", " ", "l", "o", "w", " ", "m", "e", "m", "o", "r", "y", "\n">>
WarningStateLine ==
    <<"[", "2", "0", "2", "4", "-", "0", "1", "-", "0", "1", " ", "0", "0",
      ":", "0", "0", ":", "0", "0", "]", " ", "e", "r", "r", "o", "r", ":",
      " ", "w", "a", "r", "n", "i", "n", "g", " ", "s", "t", "a", "t", "e",
      " ", "d", "e", "t", "e", "c", "t", "e", "d", "\n">>
FailedLine ==
    <<"[", "2", "0", "2", "4", "-", "0", "1", "-", "0", "1", " ", "0", "0",
      ":", "0", "0", ":", "0", "0", "]", " ", "F", "a", "i", "l", "e", "d",
      "|", "x", "\n">>
UpperWarnLine ==
    <<"[", "2", "0", "2", "4", "-", "0", "1", "-", "0", "1", " ", "0", "0",
      ":", "0", "0", ":", "0", "0", "]", " ", "W", "A", "R", "N", " ", "x",
      "\n">>
TerrorsLine ==
    <<"[", "2", "0", "2", "4", "-", "0", "1", "-", "0", "1", " ", "0", "0",
      ":", "0", "0", ":", "0", "0", "]", " ", "t", "e", "r", "r", "o", "r",
      "s", "\n">>
DetailLine ==
    <<" ", " ", "d", "e", "t", "a", "i", "l", " ", "l", "i", "n", "e", "\n">>
TracebackLine ==
    <<"s", "t", "a", "c", "k", " ", "t", "r", "a", "c", "e", "b", "a", "c",
      "k", ":", "\n">>
NilValueLine ==
    <<"a", " ", "n", "i", "l", " ", "v", "a", "l", "u", "e", "\n">>
ShortDateLine ==
    <<"[", "2", "0", "2", "4", "-", "1", "-", "0", "1", " ", "0", "0", ":",
      "0", "0", ":", "0", "0", "]", " ", "f", "a", "i", "l", "e", "d", "\n">>
SwarnLine ==
    <<"s", "w", "a", "r", "n", "\n">>

StandardLines ==
    {StartedLine, LowMemoryLine, WarningStateLine, FailedLine,
     UpperWarnLine, TerrorsLine, DetailLine, TracebackLine,
     NilValueLine, ShortDateLine, SwarnLine}

\* Bound of the model: the number of lines of a log file.
MaxLogLines == 3

StandardFiles == UNION {[1..k -> StandardLines] : k \in 0..MaxLogLines}

GameLog == LogPath("logs", "game.log")

\* the load order sorter is not running
SorterIdle ==
    /\ archive_list = <<>>
    /\ custom_order_rules = <<>>
    /\ first = NoCall
    /\ second_list = <<>>
    /\ second = NoCall

\* process_logs calls parse_log_entries(each_log_path) on a log that opens
InitStandard ==
    /\ SorterIdle
    /\ pc = "parse_log_entries"
    /\ each_log_file \in StandardFiles
    /\ parser = EnterParseLogEntries(GameLog)
    /\ log_file_paths = <<>>
    /\ logs = Idle
    /\ logs_again = Idle

\* one turn of `for each_line in each_log_file`
ReadLine ==
    /\ pc = "parse_log_entries"
    /\ parser.line_no < Len(each_log_file)
    /\ parser' = ReadStandardLine(parser, each_log_file[parser.line_no + 1])
    /\ UNCHANGED <<pc, each_log_file, log_file_paths, logs, logs_again>>
    /\ UNCHANGED sorterVars

\* the file is exhausted: the last buffer is evaluated and the lists are returned
EndOfLog ==
    /\ pc = "parse_log_entries"
    /\ parser.line_no = Len(each_log_file)
    /\ parser' = EndStandardLog(parser)
    /\ pc' = "parsed"
    /\ UNCHANGED <<each_log_file, log_file_paths, logs, logs_again>>
    /\ UNCHANGED sorterVars

NextStandard == ReadLine \/ EndOfLog

SpecStandard == InitStandard /\ [][NextStandard]_vars

----------------------------------------------------------------------------
\* parse_redscript_log: the format of redscript_rCURRENT.log.

\* warnings, warning_lines = [], [], parsing_warning = False and the open file.
\* blocks is the list of the warning_lines that were recorded.
EnterParseRedscriptLog(log_path) ==
    [log_path |-> log_path,
     warnings |-> <<>>,
     warning_lines |-> <<>>,
     parsing_warning |-> FALSE,
     line_no |-> 0,
     blocks |-> <<>>]

\* warnings.append((log_path, "".join(warning_lines).strip()))
RecordWarning(st) ==
    [st EXCEPT !.warnings = Append(@, <<st.log_path, Strip(Join(st.warning_lines))>>),
               !.blocks = Append(@, st.warning_lines)]

\* the loop body with the "[INFO" branch taken out
ReadRedscriptLineKeepsInfo(st, each_line) ==
    LET read == [st EXCEPT !.line_no = @ + 1]
    IN  IF StartsWith(each_line, <<"[", "W", "A", "R", "N">>)
        THEN LET flushed == IF read.warning_lines # <<>>
                            THEN [RecordWarning(read) EXCEPT !.warning_lines = <<>>]
                            ELSE read
             IN  [flushed EXCEPT !.parsing_warning = TRUE,
                                 !.warning_lines = Append(@, each_line)]
        ELSE IF read.parsing_warning
        THEN LET extended == [read EXCEPT !.warning_lines = Append(@, each_line)]
             IN  IF StartsWith(each_line, <<"^", "^", "^">>) \/ Strip(each_line) = <<>>
                 THEN [RecordWarning(extended) EXCEPT !.warning_lines = <<>>,
                                                      !.parsing_warning = FALSE]
                 ELSE extended
        ELSE read

\* the loop body with the closing test made before the line is appended
ReadRedscriptLineTestsFirst(st, each_line) ==
    LET read == [st EXCEPT !.line_no = @ + 1]
    IN  IF StartsWith(each_line, <<"[", "W", "A", "R", "N">>)
        THEN LET flushed == IF read.warning_lines # <<>>
                            THEN [RecordWarning(read) EXCEPT !.warning_lines = <<>>]
                            ELSE read
             IN  [flushed EXCEPT !.parsing_warning = TRUE,
                                 !.warning_lines = Append(@, each_line)]
        ELSE IF StartsWith(each_line, <<"[", "I", "N", "F", "O">>)
        THEN read
        ELSE IF read.parsing_warning
        THEN IF StartsWith(each_line, <<"^", "^", "^">>) \/ Strip(each_line) = <<>>
             THEN [RecordWarning(read) EXCEPT !.warning_lines = <<>>,
                                              !.parsing_warning = FALSE]
             ELSE [read EXCEPT !.warning_lines = Append(@, each_line)]
        ELSE read

\* the body of the loop over the lines of the file
ReadRedscriptLine(st, each_line) ==
    LET read == [st EXCEPT !.line_no = @ + 1]
    IN  IF StartsWith(each_line, <<"[", "W", "A", "R", "N">>)
        THEN LET flushed == IF read.warning_lines # <<>>
                            THEN [RecordWarning(read) EXCEPT !.warning_lines = <<>>]
                            ELSE read
             IN  [flushed EXCEPT !.parsing_warning = TRUE,
                                 !.warning_lines = Append(@, each_line)]
        ELSE IF StartsWith(each_line, <<"[", "I", "N", "F", "O">>)
        THEN read
        ELSE IF read.parsing_warning
        THEN LET extended == [read EXCEPT !.warning_lines = Append(@, each_line)]
             IN  IF StartsWith(each_line, <<"^", "^", "^">>) \/ Strip(each_line) = <<>>
                 THEN [RecordWarning(extended) EXCEPT !.warning_lines = <<>>,
                                                      !.parsing_warning = FALSE]
                 ELSE extended
        ELSE read

\* the end of input without the last `if warning_lines`
EndRedscriptLogDropsOpenBlock(st) == st

\* after the loop: if warning_lines: warnings.append(...)
EndRedscriptLog(st) == IF st.warning_lines # <<>> THEN RecordWarning(st) ELSE st

\* the loop over the lines from line k on
RECURSIVE ReadRedscriptLines(_, _, _)
ReadRedscriptLines(st, lines, k) ==
    IF k > Len(lines) THEN st
    ELSE ReadRedscriptLines(ReadRedscriptLine(st, lines[k]), lines, k + 1)

\* the whole function on a file that opens: the store at its return statement
parse_redscript_log(log_path, lines) ==
    EndRedscriptLog(ReadRedscriptLines(EnterParseRedscriptLog(log_path), lines, 1))

\* The lines the model reads from a redscript log.
WarnIssueALine ==
    <<"[", "W", "A", "R", "N", "]", " ", "i", "s", "s", "u", "e", " ", "A", "\n">>
WarnIssueBLine ==
    <<"[", "W", "A", "R", "N", "]", " ", "i", "s", "s", "u", "e", " ", "B", "\n">>
RedscriptDetailLine == <<"d", "e", "t", "a", "i", "l", "\n">>
ClosingMarkerLine == <<"^", "^", "^", "\n">>
InfoNoiseLine ==
    <<"[", "I", "N", "F", "O", "]", " ", "n", "o", "i", "s", "e", "\n">>
BlankLine == <<" ", "\n">>

RedscriptLines ==
    {WarnIssueALine, WarnIssueBLine, RedscriptDetailLine, ClosingMarkerLine,
     InfoNoiseLine, BlankLine}

\* Bound of the model: the number of lines of a redscript log.
MaxRedscriptLines == 5

RedscriptFiles == UNION {[1..k -> RedscriptLines] : k \in 0..MaxRedscriptLines}

RedscriptLog == LogPath("logs", "redscript_rCURRENT.log")

\* process_logs calls parse_redscript_log(each_log_path) on a log that opens
InitRedscript ==
    /\ SorterIdle
    /\ pc = "parse_redscript_log"
    /\ each_log_file \in RedscriptFiles
    /\ parser = EnterParseRedscriptLog(RedscriptLog)
    /\ log_file_paths = <<>>
    /\ logs = Idle
    /\ logs_again = Idle

\* one turn of `for each_line in each_file`
ReadRedscript ==
    /\ pc = "parse_redscript_log"
    /\ parser.line_no < Len(each_log_file)
    /\ parser' = ReadRedscriptLine(parser, each_log_file[parser.line_no + 1])
    /\ UNCHANGED <<pc, each_log_file, log_file_paths, logs, logs_again>>
    /\ UNCHANGED sorterVars

\* the file is exhausted: an open block is recorded and the list is returned
EndOfRedscript ==
    /\ pc = "parse_redscript_log"
    /\ parser.line_no = Len(each_log_file)
    /\ parser' = EndRedscriptLog(parser)
    /\ pc' = "parsed_redscript"
    /\ UNCHANGED <<each_log_file, log_file_paths, logs, logs_again>>
    /\ UNCHANGED sorterVars

NextRedscript == ReadRedscript \/ EndOfRedscript

SpecRedscript == InitRedscript /\ [][NextRedscript]_vars

----------------------------------------------------------------------------
\* process_logs: the loop over the log files.

\* A log file of the list: its path and what the file system answers for it.
\* exists is os.path.exists(path); opens tells whether open() and the reading
\* succeed (a directory, a file without read permission or with bytes that are
\* not UTF-8 exists and does not open); lines is what is read.
LogFile(path, exists, opens, lines) ==
    [path |-> path, exists |-> exists, opens |-> opens, lines |-> lines]

\* os.path.basename(each_log_path)
basename(path) == path.name

\* the counters and the lists before the loop; visited counts the turns done
EnterProcessLogs ==
    [total_logs_processed |-> 0,
     total_exceptions |-> 0,
     total_warnings |-> 0,
     total_cleaned |-> 0,
     error_logs |-> <<>>,
     warning_logs |-> <<>>,
     clean_logs |-> <<>>,
     missing_logs |-> <<>>,
     visited |-> 0]

\* the missing-file branch that counts the file as processed too
SkipMissingCountsProcessed(st, file) ==
    [st EXCEPT !.missing_logs = Append(@, file.path),
               !.total_logs_processed = @ + 1,
               !.visited = @ + 1]

\* if not os.path.exists(each_log_path): missing_logs.append(...); continue
SkipMissing(st, file) ==
    [st EXCEPT !.missing_logs = Append(@, file.path),
               !.visited = @ + 1]

\* every log goes through parse_log_entries
ParseLogAlwaysStandard(file) ==
    LET parsed == parse_log_entries(file.path, file.lines)
    IN  [log_errors |-> parsed.errors, log_warnings |-> parsed.warnings]

\* the choice of the parser by log_name, on a file that opens
ParseLog(file) ==
    IF basename(file.path) = "redscript_rCURRENT.log"
    THEN [log_errors |-> <<>>,
          log_warnings |-> parse_redscript_log(file.path, file.lines).warnings]
    ELSE LET parsed == parse_log_entries(file.path, file.lines)
         IN  [log_errors |-> parsed.errors, log_warnings |-> parsed.warnings]

\* the three `if`s with the clean test made on the lists of the whole run
AccumulateCleanByTotals(st, file, log_errors, log_warnings) ==
    LET counted == [st EXCEPT !.total_exceptions = @ + Len(log_errors),
                              !.error_logs = @ \o log_errors,
                              !.total_warnings = @ + Len(log_warnings),
                              !.warning_logs = @ \o log_warnings,
                              !.visited = @ + 1]
    IN  IF counted.error_logs = <<>> /\ counted.warning_logs = <<>>
        THEN [counted EXCEPT !.total_cleaned = @ + 1,
                             !.clean_logs = Append(@, <<basename(file.path), file.path>>)]
        ELSE counted

\* the three `if`s after the parsing, and progress.advance
Accumulate(st, file, log_errors, log_warnings) ==
    LET counted == [st EXCEPT !.total_exceptions = @ + Len(log_errors),
                              !.error_logs = @ \o log_errors,
                              !.total_warnings = @ + Len(log_warnings),
                              !.warning_logs = @ \o log_warnings,
                              !.visited = @ + 1]
    IN  IF log_errors = <<>> /\ log_warnings = <<>>
        THEN [counted EXCEPT !.total_cleaned = @ + 1,
                             !.clean_logs = Append(@, <<basename(file.path), file.path>>)]
        ELSE counted

\* total_logs_processed += 1, on a file that exists
CountProcessed(st) == [st EXCEPT !.total_logs_processed = @ + 1]

\* one turn of the loop on a file that is missing or that opens
ProcessLog(st, file) ==
    IF ~file.exists THEN SkipMissing(st, file)
    ELSE LET parsed == ParseLog(file)
         IN  Accumulate(CountProcessed(st), file, parsed.log_errors, parsed.log_warnings)

\* open() or the reading raises in a parser: nothing catches it
Raises(file) == file.exists /\ ~file.opens

\* process_logs(paths) from turn k on: the store at the return statement, or
\* the store at the statement that raised
RECURSIVE ProcessLogs(_, _, _)
ProcessLogs(st, paths, k) ==
    IF k > Len(paths) THEN [store |-> st, raised |-> FALSE]
    ELSE IF Raises(paths[k]) THEN [store |-> CountProcessed(st), raised |-> TRUE]
    ELSE ProcessLogs(ProcessLog(st, paths[k]), paths, k + 1)

process_logs(paths) == ProcessLogs(EnterProcessLogs, paths, 1)

\* The files the model puts behind a path.
LogContents ==
    {<<>>,
     <<StartedLine>>,
     <<WarnIssueALine, ClosingMarkerLine>>,
     <<LowMemoryLine, FailedLine>>}

LogPaths ==
    {LogPath("logs", "game.log"),
     LogPath("logs", "redscript.log"),
     LogPath("logs", "redscript_rCURRENT.log"),
     LogPath("r6", "redscript_rCURRENT.log")}

LogFiles ==
    {LogFile(path, FALSE, FALSE, <<>>) : path \in LogPaths}
    \cup {LogFile(path, TRUE, FALSE, <<>>) : path \in LogPaths}
    \cup {LogFile(path, TRUE, TRUE, lines) : path \in LogPaths, lines \in LogContents}

\* Bound of the model: the number of paths passed to process_logs.
MaxLogFiles == 3

\* scan_directory_for_logs: os.walk gives every path once
LogFileLists ==
    {paths \in UNION {[1..k -> LogFiles] : k \in 0..MaxLogFiles} :
        \A i, j \in DOMAIN paths : i # j => paths[i].path # paths[j].path}

\* the same files in another order
Reorderings(paths) ==
    {other \in [DOMAIN paths -> SetOf(paths)] : SetOf(other) = SetOf(paths)}

\* scan_directory_for_logs calls process_logs(log_file_paths)
InitLogs ==
    /\ SorterIdle
    /\ pc = "process_logs"
    /\ each_log_file = <<>>
    /\ parser = Idle
    /\ log_file_paths \in LogFileLists
    /\ logs = EnterProcessLogs
    /\ logs_again = Idle

\* one turn of `for each_log_path in log_file_paths` that reaches its end
ProcessNextLog ==
    /\ pc = "process_logs"
    /\ logs.visited < Len(log_file_paths)
    /\ ~Raises(log_file_paths[logs.visited + 1])
    /\ logs' = ProcessLog(logs, log_file_paths[logs.visited + 1])
    /\ UNCHANGED <<pc, each_log_file, parser, log_file_paths, logs_again>>
    /\ UNCHANGED sorterVars

\* one turn of the loop on a file that exists and does not open: the exception
\* of open() leaves parse_log_entries or parse_redscript_log, then process_logs
ProcessLogRaises ==
    /\ pc = "process_logs"
    /\ logs.visited < Len(log_file_paths)
    /\ Raises(log_file_paths[logs.visited + 1])
    /\ logs' = CountProcessed(logs)
    /\ pc' = "raised"
    /\ UNCHANGED <<each_log_file, parser, log_file_paths, logs_again>>
    /\ UNCHANGED sorterVars

\* the loop is over: the eight values are returned
ReturnLogs ==
    /\ pc = "process_logs"
    /\ logs.visited = Len(log_file_paths)
    /\ pc' = "returned"
    /\ UNCHANGED <<each_log_file, parser, log_file_paths, logs, logs_again>>
    /\ UNCHANGED sorterVars

\* process_logs on the same files listed in another order
ProcessReordered ==
    /\ pc \in {"returned", "raised"}
    /\ \E other \in Reorderings(log_file_paths) : logs_again' = process_logs(other)
    /\ pc' = IF pc = "returned" THEN "returned_reordered" ELSE "raised_reordered"
    /\ UNCHANGED <<each_log_file, parser, log_file_paths, logs>>
    /\ UNCHANGED sorterVars

NextLogs == ProcessNextLog \/ ProcessLogRaises \/ ReturnLogs \/ ProcessReordered

SpecLogs == InitLogs /\ [][NextLogs]_vars

----------------------------------------------------------------------------
\* Properties of the standard parser.

\* the text evaluate_log_entry classifies: joined, stripped, pipes escaped
NormalizedText(log_lines) == EscapePipes(Strip(Join(log_lines)))

\* the text holds "warn" or "warning", case-sensitive, anywhere
HasWarningSubstring(text) ==
    Contains(text, <<"w", "a", "r", "n">>)
    \/ Contains(text, <<"w", "a", "r", "n", "i", "n", "g">>)

\* what the claim says of a text: "warning" when the substring is there, "error"
\* when it is not and the keyword pattern matches, "clean" otherwise
ExpectedVerdict(text) ==
    IF HasWarningSubstring(text) THEN "warning"
    ELSE IF EXCEPTION_PATTERN_search(text) THEN "error"
    ELSE "clean"

\* the records of the entries with that verdict, in the order of the entries
RECURSIVE RecordsOf(_, _, _)
RecordsOf(entries, log_path, verdict) ==
    IF entries = <<>> THEN <<>>
    ELSE LET text == NormalizedText(Head(entries))
         IN  (IF ExpectedVerdict(text) = verdict THEN <<(<<log_path, text>>)>> ELSE <<>>)
             \o RecordsOf(Tail(entries), log_path, verdict)

\* a log of that one line has been parsed: the numbers of errors and warnings
OneLineLog(each_line, errors, warnings) ==
    pc = "parsed" /\ each_log_file = <<each_line>>
        => Len(parser.errors) = errors /\ Len(parser.warnings) = warnings

\* C11: every entry handed to evaluate_log_entry gets exactly one verdict: each
\* step of the parser adds at most one record, to the warnings or to the errors
\* and never to both, records already in the lists stay, and the lists hold one
\* record per entry that matches a rule and none for an entry that matches none.
C11_ExactlyOneVerdict ==
    /\ [](Len(parser.errors) + Len(parser.warnings)
            = Len(parser.entries)
                - Len(RecordsOf(parser.entries, parser.log_path, "clean")))
    /\ [][pc = "parse_log_entries" =>
            \/ parser'.errors = parser.errors /\ parser'.warnings = parser.warnings
            \/ /\ parser'.errors = parser.errors
               /\ Len(parser'.warnings) = Len(parser.warnings) + 1
               /\ SubSeq(parser'.warnings, 1, Len(parser.warnings)) = parser.warnings
            \/ /\ parser'.warnings = parser.warnings
               /\ Len(parser'.errors) = Len(parser.errors) + 1
               /\ SubSeq(parser'.errors, 1, Len(parser.errors)) = parser.errors]_vars

\* a log of three entries: one warning, one error and one clean
C11_Witness ==
    /\ pc = "parsed"
    /\ Len(parser.entries) = 3
    /\ Len(parser.warnings) = 1
    /\ Len(parser.errors) = 1
    /\ \E k \in DOMAIN parser.entries :
           /\ HasWarningSubstring(NormalizedText(parser.entries[k]))
           /\ EXCEPTION_PATTERN_search(NormalizedText(parser.entries[k]))

\* C12: the warnings are exactly the entries whose text holds the substring
\* "warn" or "warning", whether or not the keyword pattern matches too; the
\* errors are exactly the entries without such a substring that the keyword
\* pattern matches; "error: warning state detected" is a warning.
C12_WarningBeforeError ==
    /\ parser.warnings = RecordsOf(parser.entries, parser.log_path, "warning")
    /\ parser.errors = RecordsOf(parser.entries, parser.log_path, "error")
    /\ OneLineLog(WarningStateLine, 0, 1)
    /\ OneLineLog(FailedLine, 1, 0)
    /\ OneLineLog(UpperWarnLine, 1, 0)
    /\ OneLineLog(StartedLine, 0, 0)
    /\ OneLineLog(TerrorsLine, 0, 0)

\* an entry that the keyword pattern matches was recorded as a warning, and an
\* entry with "WARN" in capitals as an error
C12_Witness ==
    /\ pc = "parsed"
    /\ \E i \in DOMAIN parser.warnings : EXCEPTION_PATTERN_search(parser.warnings[i][2])
    /\ \E i \in DOMAIN parser.errors : Contains(parser.errors[i][2], <<"W", "A", "R", "N">>)

\* the entries the parser has cut so far, the open buffer last
Segments(st) ==
    IF pc = "parse_log_entries" /\ st.log_lines # <<>>
    THEN Append(st.entries, st.log_lines)
    ELSE st.entries

\* C13: the entries, in order, are the lines read so far, each line once; every
\* timestamp line is the first line of its entry, so that the other lines
\* follow the nearest timestamp line before them; only the first entry can
\* start without a timestamp; at the end of input the open buffer has become
\* the last entry.
C13_EntriesPartitionTheLines ==
    LET segments == Segments(parser)
    IN  /\ Join(segments) = SubSeq(each_log_file, 1, parser.line_no)
        /\ pc = "parsed" => Join(parser.entries) = each_log_file
        /\ \A k \in DOMAIN segments :
               /\ segments[k] # <<>>
               /\ k > 1 => TIMESTAMP_PATTERN_match(segments[k][1])
               /\ \A i \in 2..Len(segments[k]) : ~TIMESTAMP_PATTERN_match(segments[k][i])

\* lines before the first timestamp form the first entry, and the entry of the
\* last timestamp line, with a line attached, was evaluated at the end of input
C13_Witness ==
    /\ pc = "parsed"
    /\ Len(each_log_file) = 3
    /\ Len(parser.entries) = 2
    /\ ~TIMESTAMP_PATTERN_match(parser.entries[1][1])
    /\ Len(parser.entries[2]) = 2

----------------------------------------------------------------------------
\* Properties of the redscript parser.

IsWarnLine(each_line) == StartsWith(each_line, <<"[", "W", "A", "R", "N">>)
IsInfoLine(each_line) == StartsWith(each_line, <<"[", "I", "N", "F", "O">>)
IsClosingMarker(each_line) == StartsWith(each_line, <<"^", "^", "^">>)
IsBlank(each_line) == \A i \in DOMAIN each_line : each_line[i] \in Whitespace

\* the line the next turn of the loop reads
NextLine == each_log_file[parser.line_no + 1]

\* the lines of the file read so far
LinesRead == SubSeq(each_log_file, 1, parser.line_no)

\* the text of a list of lines without the line ends: the lines joined by "\n"
RECURSIVE JoinedByNewline(_)
JoinedByNewline(lines) ==
    IF lines = <<>> THEN <<>>
    ELSE LET line == Head(lines)
             bare == IF line # <<>> /\ line[Len(line)] = "\n"
                     THEN SubSeq(line, 1, Len(line) - 1) ELSE line
         IN  IF Len(lines) = 1 THEN bare
             ELSE bare \o <<"\n">> \o JoinedByNewline(Tail(lines))

\* the texts of the recorded warnings
WarningTexts == [i \in DOMAIN parser.warnings |-> parser.warnings[i][2]]

\* spec.md Example 5
ExampleFive ==
    <<WarnIssueALine, RedscriptDetailLine, ClosingMarkerLine, InfoNoiseLine,
      WarnIssueBLine>>

\* C14: a line starting with "[INFO" is in no recorded block and in no buffer,
\* and reading one, with a block open or not, changes nothing of the parser
\* but its position in the file.
C14_InfoLineDiscarded ==
    /\ [](/\ \A k \in DOMAIN parser.blocks :
               \A i \in DOMAIN parser.blocks[k] : ~IsInfoLine(parser.blocks[k][i])
          /\ \A i \in DOMAIN parser.warning_lines : ~IsInfoLine(parser.warning_lines[i])
          /\ \A i \in DOMAIN parser.warnings :
               ~Contains(parser.warnings[i][2], <<"[", "I", "N", "F", "O">>))
    /\ [][pc = "parse_redscript_log" /\ pc' = pc /\ IsInfoLine(NextLine)
            => parser' = [parser EXCEPT !.line_no = @ + 1]]_vars

\* an "[INFO" line was read inside a block that went on and was recorded, and
\* another one outside of any block
C14_Witness ==
    /\ pc = "parsed_redscript"
    /\ each_log_file = <<InfoNoiseLine, WarnIssueALine, InfoNoiseLine,
                         RedscriptDetailLine, ClosingMarkerLine>>
    /\ parser.blocks = <<(<<WarnIssueALine, RedscriptDetailLine, ClosingMarkerLine>>)>>

\* C15 as stated: no recorded block holds a closing-marker line, and Example 5
\* gives "[WARN] issue A\ndetail" and "[WARN] issue B".
C15_MarkerNotInBlock ==
    /\ \A k \in DOMAIN parser.blocks :
          \A i \in DOMAIN parser.blocks[k] : ~IsClosingMarker(parser.blocks[k][i])
    /\ pc = "parsed_redscript" /\ each_log_file = ExampleFive
          => WarningTexts = <<JoinedByNewline(<<WarnIssueALine, RedscriptDetailLine>>),
                              JoinedByNewline(<<WarnIssueBLine>>)>>

\* C15 amended: a closing line, "^^^" or blank, is appended before it is
\* tested, so it is the last line of the block it closes and nowhere else in a
\* block; the record is the stripped text of the block, which keeps a "^^^"
\* line and loses a blank one; Example 5 gives "[WARN] issue A\ndetail\n^^^"
\* and "[WARN] issue B".
C15_MarkerIsLastLineOfBlock ==
    /\ Len(parser.warnings) = Len(parser.blocks)
    /\ \A k \in DOMAIN parser.blocks :
          LET block == parser.blocks[k]
          IN  /\ parser.warnings[k] = <<parser.log_path, Strip(Join(block))>>
              /\ \A i \in DOMAIN block :
                    IsClosingMarker(block[i]) \/ IsBlank(block[i]) => i = Len(block) /\ i > 1
              /\ IsClosingMarker(block[Len(block)])
                    => /\ parser.warnings[k][2] = JoinedByNewline(block)
                       /\ Contains(parser.warnings[k][2], <<"^", "^", "^">>)
              /\ Len(block) > 1 /\ IsBlank(block[Len(block)])
                    => parser.warnings[k][2]
                          = JoinedByNewline(SubSeq(block, 1, Len(block) - 1))
    /\ pc = "parsed_redscript" /\ each_log_file = ExampleFive
          => WarningTexts = <<JoinedByNewline(<<WarnIssueALine, RedscriptDetailLine,
                                                ClosingMarkerLine>>),
                              JoinedByNewline(<<WarnIssueBLine>>)>>

\* Example 5 has been parsed
C15_Witness ==
    /\ pc = "parsed_redscript"
    /\ each_log_file = ExampleFive
    /\ Len(parser.warnings) = 2
    /\ parser.blocks[1][3] = ClosingMarkerLine

\* the number of lines starting with "[WARN"
RECURSIVE WarnLines(_)
WarnLines(lines) ==
    IF lines = <<>> THEN 0
    ELSE (IF IsWarnLine(Head(lines)) THEN 1 ELSE 0) + WarnLines(Tail(lines))

\* C20: every "[WARN" line gives one record. While the file is read the buffer
\* is non-empty exactly when a block is open, and the records plus the open
\* block count the "[WARN" lines read; every block starts with its "[WARN" line
\* and holds no other; at the end of input the number of records is the number
\* of "[WARN" lines; a line that is not a "[WARN" line and is read while no
\* block is open changes nothing but the position in the file.
C20_OneRecordPerWarnLine ==
    /\ [](/\ (parser.warning_lines # <<>>) <=> parser.parsing_warning
          /\ pc = "parse_redscript_log"
               => Len(parser.warnings) + (IF parser.parsing_warning THEN 1 ELSE 0)
                     = WarnLines(LinesRead)
          /\ pc = "parsed_redscript" => Len(parser.warnings) = WarnLines(each_log_file)
          /\ \A k \in DOMAIN parser.blocks :
               /\ IsWarnLine(parser.blocks[k][1])
               /\ WarnLines(parser.blocks[k]) = 1)
    /\ [][pc = "parse_redscript_log" /\ pc' = pc
             /\ ~parser.parsing_warning /\ ~IsWarnLine(NextLine)
            => parser' = [parser EXCEPT !.line_no = @ + 1]]_vars

\* three "[WARN" lines: one flushed by the next, one closed by "^^^", one open
\* at the end of input
C20_Witness ==
    /\ pc = "parsed_redscript"
    /\ each_log_file = <<WarnIssueALine, WarnIssueBLine, ClosingMarkerLine,
                         RedscriptDetailLine, WarnIssueALine>>
    /\ Len(parser.warnings) = 3

----------------------------------------------------------------------------
\* Properties of process_logs.

\* the files the loop has gone through
VisitedFiles == SubSeq(log_file_paths, 1, logs.visited)

\* the records of a list that carry that path
RecordsWithPath(records, path) == SelectSeq(records, LAMBDA record : record[1] = path)

\* the file cannot be located, or cannot be opened or read
Unavailable(file) == ~file.exists \/ ~file.opens

\* C16 as stated: nothing raises, and when process_logs returns, every file of
\* the list that cannot be located or opened is in missing_logs and in no count,
\* and every other file has been processed.
C16_UnavailableFileIsSoftFailure ==
    /\ pc \notin {"raised", "raised_reordered"}
    /\ pc = "returned" =>
          /\ SetOf(logs.missing_logs)
                = {log_file_paths[i].path : i \in {j \in DOMAIN log_file_paths :
                                                       Unavailable(log_file_paths[j])}}
          /\ logs.total_logs_processed
                = Cardinality({i \in DOMAIN log_file_paths : ~Unavailable(log_file_paths[i])})

\* C17: at every turn of the loop and at the return, the processed count and
\* the missing files add up to the files visited, each total is the length of
\* its list, and the clean count is the number of visited files that exist and
\* have no record in the error list nor in the warning list.
C17_AccountingInvariant ==
    pc \in {"process_logs", "returned"} =>
        /\ logs.total_logs_processed + Len(logs.missing_logs) = logs.visited
        /\ logs.total_exceptions = Len(logs.error_logs)
        /\ logs.total_warnings = Len(logs.warning_logs)
        /\ logs.total_cleaned = Len(logs.clean_logs)
        /\ logs.total_cleaned
              = Cardinality({i \in DOMAIN VisitedFiles :
                    /\ VisitedFiles[i].exists
                    /\ RecordsWithPath(logs.error_logs, VisitedFiles[i].path) = <<>>
                    /\ RecordsWithPath(logs.warning_logs, VisitedFiles[i].path) = <<>>})
        /\ SetOf(logs.missing_logs)
              = {VisitedFiles[i].path : i \in {j \in DOMAIN VisitedFiles :
                                                   ~VisitedFiles[j].exists}}

\* three files: one missing, one clean, one with an error and a warning
C17_Witness ==
    /\ pc = "returned"
    /\ logs.visited = 3
    /\ Len(logs.missing_logs) = 1
    /\ logs.total_cleaned = 1
    /\ logs.total_exceptions = 1
    /\ logs.total_warnings = 1

\* C18: process_logs on the same files in another order raises exactly when
\* the first run raised, and otherwise returns the same five counts and the
\* same members of the four lists.
C18_OrderIndependent ==
    pc \in {"returned_reordered", "raised_reordered"} =>
        /\ logs_again.raised = (pc = "raised_reordered")
        /\ pc = "returned_reordered" =>
              LET again == logs_again.store
              IN  /\ again.total_logs_processed = logs.total_logs_processed
                  /\ again.total_exceptions = logs.total_exceptions
                  /\ again.total_warnings = logs.total_warnings
                  /\ again.total_cleaned = logs.total_cleaned
                  /\ Len(again.missing_logs) = Len(logs.missing_logs)
                  /\ SetOf(again.error_logs) = SetOf(logs.error_logs)
                  /\ SetOf(again.warning_logs) = SetOf(logs.warning_logs)
                  /\ SetOf(again.clean_logs) = SetOf(logs.clean_logs)
                  /\ SetOf(again.missing_logs) = SetOf(logs.missing_logs)

\* two files with errors and a clean one: the second run returned the error
\* records in another order
C18_Witness ==
    /\ pc = "returned_reordered"
    /\ Len(log_file_paths) = 3
    /\ logs.total_cleaned = 1
    /\ logs.total_exceptions = 2
    /\ logs_again.store.error_logs # logs.error_logs

\* C19: no record of the error list comes from a file named
\* redscript_rCURRENT.log, in whatever directory: such a file gives the warnings
\* of parse_redscript_log and nothing else; every other visited file that
\* exists gives the errors and the warnings of parse_log_entries.
C19_ParserChosenByName ==
    pc \in {"process_logs", "returned"} =>
        /\ \A i \in DOMAIN logs.error_logs :
              logs.error_logs[i][1].name # "redscript_rCURRENT.log"
        /\ \A i \in DOMAIN VisitedFiles :
              LET file == VisitedFiles[i]
                  errors == RecordsWithPath(logs.error_logs, file.path)
                  warnings == RecordsWithPath(logs.warning_logs, file.path)
              IN  file.exists =>
                    IF file.path.name = "redscript_rCURRENT.log"
                    THEN /\ errors = <<>>
                         /\ warnings = parse_redscript_log(file.path, file.lines).warnings
                    ELSE /\ errors = parse_log_entries(file.path, file.lines).errors
                         /\ warnings = parse_log_entries(file.path, file.lines).warnings

\* the same two lines were read from a redscript_rCURRENT.log and from a
\* redscript.log: the first gave a warning, the second an error; a third file
\* named redscript_rCURRENT.log with a "Failed" entry was found clean
C19_Witness ==
    /\ pc = "returned"
    /\ \E i, j, k \in DOMAIN log_file_paths :
          /\ log_file_paths[i].path = LogPath("logs", "redscript_rCURRENT.log")
          /\ log_file_paths[i].lines = <<WarnIssueALine, ClosingMarkerLine>>
          /\ log_file_paths[j].path = LogPath("logs", "redscript.log")
          /\ log_file_paths[j].lines = <<WarnIssueALine, ClosingMarkerLine>>
          /\ log_file_paths[k].path = LogPath("r6", "redscript_rCURRENT.log")
          /\ log_file_paths[k].lines = <<LowMemoryLine, FailedLine>>
    /\ logs.total_exceptions = 1
    /\ logs.total_warnings = 1
    /\ logs.total_cleaned = 1

----------------------------------------------------------------------------
\* The two implementations of apply_custom_mod_order_rules.

\* all the dependents of the rules, in the order they are listed
RECURSIVE ListedDependents(_)
ListedDependents(rules) ==
    IF rules = <<>> THEN <<>> ELSE Head(rules).deps \o ListedDependents(Tail(rules))

\* every target and every dependent is in the list, and no name is listed as a
\* dependent twice, in one rule or in two
AllPresentListedOnce ==
    /\ \A k \in DOMAIN custom_order_rules : IsValidRule(custom_order_rules[k])
    /\ IsUnique(ListedDependents(custom_order_rules))

\* C21: on an input whose rules name only names of the list and list no
\* dependent twice, the function of load_order_sorter.py and the function of
\* nexus_log_remover.py return the same order and the same count.
C21_SameResultOnValidInput ==
    pc = "sorted" /\ AllPresentListedOnce =>
        /\ ~first.raised
        /\ sorted_archive_files(second) = final_order(first)
        /\ overridden_mod_count(second) = overridden_count(first)

\* both functions ran on two valid rules, the first with two dependents and a
\* target that the second rule lists, so that the target is not in the sorted
\* list when its dependents are placed
C21_Witness ==
    /\ pc = "sorted"
    /\ AllPresentListedOnce
    /\ Len(custom_order_rules) = 2
    /\ Len(custom_order_rules[1].deps) = 2
    /\ custom_order_rules[1].mod \in SetOf(custom_order_rules[2].deps)
    /\ custom_order_rules[1].mod \notin SetOf(sorted(second.set_of_archives))
    /\ overridden_mod_count(second) = 3
    /\ Len(sorted_archive_files(second)) = 4

====
